---- MODULE Spec2Model ----
(***************************************************************************)
(* Model of the gas-watcher registry of discord-stock-ticker               *)
(* (gas_request.go): the Manager's WatchingGas map guarded by its          *)
(* readers-writer lock, the gasCount gauge, the Gas watchers started by    *)
(* NewGas and stopped by Shutdown, the gases table of the optional         *)
(* database, and the three HTTP handlers AddGas, DeleteGas and GetGas.     *)
(*                                                                         *)
(* Strings that are case-converted (network names) are sequences of        *)
(* one-character strings, so that strings.ToUpper is computed.             *)
(***************************************************************************)
EXTENDS Integers, Sequences, FiniteSets, TLC

\* ------------------------------------------------------------------ bounds
\* number of request-serving goroutines that can be in flight at once
NumProcs == 2
\* number of Gas values NewGas may construct in one behaviour
MaxGas == 2

Procs == 1..NumProcs

\* ------------------------------------------------------- strings.ToUpper
Lower == <<"a", "b", "c", "d", "e", "f", "g", "h", "i", "j", "k", "l", "m",
           "n", "o", "p", "q", "r", "s", "t", "u", "v", "w", "x", "y", "z">>
Upper == <<"A", "B", "C", "D", "E", "F", "G", "H", "I", "J", "K", "L", "M",
           "N", "O", "P", "Q", "R", "S", "T", "U", "V", "W", "X", "Y", "Z">>

UpperChar(c) ==
    IF \E i \in DOMAIN Lower : Lower[i] = c
    THEN Upper[CHOOSE i \in DOMAIN Lower : Lower[i] = c]
    ELSE c

ToUpper(s) == [i \in DOMAIN s |-> UpperChar(s[i])]

\* ------------------------------------------------------ request payloads
eth == <<"e", "t", "h">>
Eth == <<"E", "t", "h">>
ETH == <<"E", "T", "H">>
bsc == <<"b", "s", "c">>
BSC == <<"B", "S", "C">>

\* Bodies of POST requests: raw text that is either not JSON or a JSON
\* object with some of the fields of GasRequest.
AddBodies ==
    { [wellFormed |-> FALSE, obj |-> [network |-> eth]],
      [wellFormed |-> TRUE,  obj |-> [network |-> bsc]],
      [wellFormed |-> TRUE,  obj |-> [discord_bot_token |-> "abc", frequency |-> 30]],
      [wellFormed |-> TRUE,  obj |-> [network |-> eth, discord_bot_token |-> "abc",
                                      set_nickname |-> TRUE, frequency |-> 30]],
      [wellFormed |-> TRUE,  obj |-> [network |-> ETH, discord_bot_token |-> "xyz",
                                      set_nickname |-> FALSE, frequency |-> 0]],
      [wellFormed |-> TRUE,  obj |-> [network |-> bsc, discord_bot_token |-> "abc"]] }

\* Values of the {id} path variable of DELETE requests.
DeleteIds == {Eth, BSC}

\* GasRequest: the struct json.Unmarshal fills; fields absent from the
\* body keep Go's zero value (the `default:"60"` tag is not read by
\* encoding/json).
GasRequest(obj) ==
    [Network   |-> IF "network" \in DOMAIN obj THEN obj.network ELSE <<>>,
     Token     |-> IF "discord_bot_token" \in DOMAIN obj THEN obj.discord_bot_token ELSE "",
     Nickname  |-> IF "set_nickname" \in DOMAIN obj THEN obj.set_nickname ELSE FALSE,
     Frequency |-> IF "frequency" \in DOMAIN obj THEN obj.frequency ELSE 0]

\* ------------------------------------------------------------ HTTP codes
StatusOK == 200
StatusNoContent == 204
StatusBadRequest == 400
StatusNotFound == 404
StatusConflict == 409
StatusInternalServerError == 500

\* The `default:"60"` tag of GasRequest.Frequency.
DefaultFrequency == 60

NoResp == [status |-> 0]
NoReq == [kind |-> "none"]
NoLocal == [set |-> FALSE]
NoPre == [taken |-> FALSE]

VARIABLES
    pc,          \* position of each request goroutine
    req,         \* the request each goroutine is serving
    resp,        \* the response written so far
    local,       \* locals of AddGas/addGas/DeleteGas (gasReq, gas, existingId, id)
    writer,      \* holder of the exclusive lock of m (0: none)
    readers,     \* holders of the shared lock of m
    WatchingGas, \* m.WatchingGas: network -> *Gas
    gasCount,    \* the gasCount gauge
    gasMade,     \* number of Gas values constructed by NewGas
    started,     \* Gas handles whose watcher goroutine was started
    shutdowns,   \* handle -> number of Shutdown() calls received
    DB,          \* m.DB: "noDB" or "db"
    rows,        \* gases table: id -> row
    pre,         \* state of the registry when the goroutine took the lock
    accepted,    \* history: network -> request of the Create answered 200 and not deleted since
    deleted,     \* history: networks whose last successful request was a Delete
    trace,       \* history switch: finished goroutines keep their request and response
    waiting      \* goroutines blocked in m.Lock()/m.RLock(), in the order of their calls

vars == <<pc, req, resp, local, writer, readers, WatchingGas, gasCount, gasMade,
          started, shutdowns, DB, rows, pre, accepted, deleted, trace, waiting>>

registry == <<WatchingGas, gasCount, gasMade, started, shutdowns, rows, trace>>

Snapshot ==
    [taken |-> TRUE, WatchingGas |-> WatchingGas, gasCount |-> gasCount,
     started |-> started, shutdowns |-> shutdowns, rows |-> rows,
     accepted |-> accepted, deleted |-> deleted]

\* ------------------------------------------------------------- the lock
\* sync.RWMutex: Lock() is granted when nobody holds the lock, RLock() when
\* no writer holds it.
\* Fault: Lock() does not wait.
CanLockAlways == TRUE
CanLock == writer = 0 /\ readers = {}

\* Fault: RLock() does not wait for the writer.
CanRLockAlways == TRUE
CanRLock == writer = 0

\* The goroutines whose call came before p's and who still wait.
Ahead(p) == {waiting[i] : i \in {j \in DOMAIN waiting : \E k \in DOMAIN waiting :
                                                          k > j /\ waiting[k] = p}}
\* Waiting goroutines are served in the order of their calls: a Lock() is
\* granted to the longest waiting one, an RLock() when no Lock() was
\* called before it and still waits.
LockTurn(p) == Ahead(p) = {}
RLockTurn(p) == \A q \in Ahead(p) : pc[q] = "GetGas"
Leave(w, p) == SelectSeq(w, LAMBDA q : q # p)

\* ------------------------------------------------------------- Go's map
MapPut(m, k, v) == [x \in (DOMAIN m) \cup {k} |-> IF x = k THEN v ELSE m[x]]
MapDelete(m, k) == [x \in (DOMAIN m) \ {k} |-> m[x]]
EmptyMap == [x \in {} |-> 0]

\* ------------------------------------------------------------------ Gas
\* NewGas builds the Gas for a request and starts its watcher; handle is
\* the identity of the new *Gas.  The key is held case-normalized.
NewGas(network, token, nickname, frequency, handle) ==
    [Network |-> ToUpper(network), Nickname |-> nickname, Frequency |-> frequency,
     token |-> token, handle |-> handle]

\* JSON form of a Gas: the token is not part of it.
EncodeGas(gas) ==
    [network |-> gas.Network, nickname |-> gas.Nickname, frequency |-> gas.Frequency]

EncodeMap(m) == [k \in DOMAIN m |-> EncodeGas(m[k])]

\* ------------------------------------------------------------------ Init
Init ==
    /\ pc = [p \in Procs |-> "idle"]
    /\ req = [p \in Procs |-> NoReq]
    /\ resp = [p \in Procs |-> NoResp]
    /\ local = [p \in Procs |-> NoLocal]
    /\ pre = [p \in Procs |-> NoPre]
    /\ writer = 0
    /\ readers = {}
    /\ WatchingGas = EmptyMap
    /\ gasCount = 0
    /\ gasMade = 0
    /\ started = {}
    /\ shutdowns = EmptyMap
    /\ DB \in {"noDB", "db"}
    /\ rows = EmptyMap
    /\ accepted = EmptyMap
    /\ deleted = {}
    /\ trace = FALSE
    /\ waiting = <<>>

\* ------------------------------------------------- the HTTP server's side
\* Goroutines that will still call NewGas.
AddPending == {p \in Procs : pc[p] \in {"AddGas", "AddGasCheck", "AddGasNewGas"}}

\* A POST arrives and is routed to AddGas.
ServeAdd(p) ==
    /\ pc[p] = "idle"
    /\ gasMade + Cardinality(AddPending) < MaxGas
    /\ \E body \in AddBodies :
          req' = [req EXCEPT ![p] = [kind |-> "add", body |-> body]]
    /\ pc' = [pc EXCEPT ![p] = "AddGas"]
    /\ waiting' = Append(waiting, p)
    /\ UNCHANGED <<resp, local, writer, readers, DB, pre, accepted, deleted, registry>>

\* A DELETE arrives and is routed to DeleteGas.
ServeDelete(p) ==
    /\ pc[p] = "idle"
    /\ \E id \in DeleteIds :
          req' = [req EXCEPT ![p] = [kind |-> "delete", id |-> id]]
    /\ pc' = [pc EXCEPT ![p] = "DeleteGas"]
    /\ waiting' = Append(waiting, p)
    /\ UNCHANGED <<resp, local, writer, readers, DB, pre, accepted, deleted, registry>>

\* A GET arrives and is routed to GetGas.
ServeGet(p) ==
    /\ pc[p] = "idle"
    /\ req' = [req EXCEPT ![p] = [kind |-> "get"]]
    /\ pc' = [pc EXCEPT ![p] = "GetGas"]
    /\ waiting' = Append(waiting, p)
    /\ UNCHANGED <<resp, local, writer, readers, DB, pre, accepted, deleted, registry>>

\* The handler has returned: the goroutine is free for the next request.
Finish(p) ==
    /\ pc' = [pc EXCEPT ![p] = IF trace THEN "done" ELSE "idle"]
    /\ req' = IF trace THEN req ELSE [req EXCEPT ![p] = NoReq]
    /\ resp' = IF trace THEN resp ELSE [resp EXCEPT ![p] = NoResp]

\* ---------------------------------------------------------------- AddGas
\* m.Lock(); defer m.Unlock()
AddGasLock(p) ==
    /\ pc[p] = "AddGas"
    /\ CanLock
    /\ LockTurn(p)
    /\ waiting' = Leave(waiting, p)
    /\ writer' = p
    /\ pre' = [pre EXCEPT ![p] = Snapshot]
    /\ pc' = [pc EXCEPT ![p] = "AddGasCheck"]
    /\ UNCHANGED <<req, resp, local, readers, DB, accepted, deleted, registry>>

\* The status AddGas answers before it changes anything, 0 when the
\* request passes: body read, unmarshal, token, network, already existing.
\* Fault: the lookup uses the network as sent.
AddGasStatusNoUpper(readErr, body, watching) ==
    IF readErr THEN StatusInternalServerError
    ELSE IF ~body.wellFormed THEN StatusInternalServerError
    ELSE IF GasRequest(body.obj).Token = "" THEN StatusBadRequest
    ELSE IF GasRequest(body.obj).Network = <<>> THEN StatusBadRequest
    ELSE IF GasRequest(body.obj).Network \in DOMAIN watching THEN StatusConflict
    ELSE 0

\* Fault: no check for an existing entry.
AddGasStatusNoConflict(readErr, body, watching) ==
    IF readErr THEN StatusInternalServerError
    ELSE IF ~body.wellFormed THEN StatusInternalServerError
    ELSE IF GasRequest(body.obj).Token = "" THEN StatusBadRequest
    ELSE IF GasRequest(body.obj).Network = <<>> THEN StatusBadRequest
    ELSE 0

\* Fault: no check that the token is set.
AddGasStatusNoToken(readErr, body, watching) ==
    IF readErr THEN StatusInternalServerError
    ELSE IF ~body.wellFormed THEN StatusInternalServerError
    ELSE IF GasRequest(body.obj).Network = <<>> THEN StatusBadRequest
    ELSE IF ToUpper(GasRequest(body.obj).Network) \in DOMAIN watching THEN StatusConflict
    ELSE 0

AddGasStatus(readErr, body, watching) ==
    IF readErr THEN StatusInternalServerError
    ELSE IF ~body.wellFormed THEN StatusInternalServerError
    ELSE IF GasRequest(body.obj).Token = "" THEN StatusBadRequest
    ELSE IF GasRequest(body.obj).Network = <<>> THEN StatusBadRequest
    ELSE IF ToUpper(GasRequest(body.obj).Network) \in DOMAIN watching THEN StatusConflict
    ELSE 0

\* Lines 28-63: the checks; a failed one writes its status and returns.
AddGasCheck(p) ==
    /\ pc[p] = "AddGasCheck"
    /\ \E readErr \in BOOLEAN :
          LET status == AddGasStatus(readErr, req[p].body, WatchingGas) IN
          IF status # 0
          THEN /\ resp' = [resp EXCEPT ![p] = [status |-> status]]
               /\ pc' = [pc EXCEPT ![p] = "AddGasReturn"]
               /\ local' = [local EXCEPT ![p] = [set |-> TRUE, readErr |-> readErr]]
          ELSE /\ local' = [local EXCEPT ![p] =
                               [set |-> TRUE, readErr |-> FALSE,
                                gasReq |-> GasRequest(req[p].body.obj)]]
               /\ pc' = [pc EXCEPT ![p] = "AddGasNewGas"]
               /\ UNCHANGED resp
    /\ UNCHANGED <<req, writer, readers, DB, pre, accepted, deleted, registry, waiting>>

\* Fault: the nickname flag of the request is not handed to NewGas.
AddGasNewGasNoNickname(p) ==
    /\ pc[p] = "AddGasNewGas"
    /\ LET r == local[p].gasReq
           h == gasMade + 1
       IN /\ local' = [local EXCEPT ![p] =
                          [set |-> TRUE, readErr |-> FALSE, gasReq |-> r,
                           gas |-> NewGas(r.Network, r.Token, FALSE, r.Frequency, h),
                           existingId |-> 0, dbErr |-> "none"]]
          /\ gasMade' = h
          /\ started' = started \cup {h}
          /\ shutdowns' = MapPut(shutdowns, h, 0)
    /\ pc' = [pc EXCEPT ![p] = "addGasInc"]
    /\ UNCHANGED <<req, resp, writer, readers, WatchingGas, gasCount, DB, rows, pre,
                   accepted, deleted, trace, waiting>>

\* gas := NewGas(...): the Gas is built and its watcher goroutine started.
AddGasNewGas(p) ==
    /\ pc[p] = "AddGasNewGas"
    /\ LET r == local[p].gasReq
           h == gasMade + 1
       IN /\ local' = [local EXCEPT ![p] =
                          [set |-> TRUE, readErr |-> FALSE, gasReq |-> r,
                           gas |-> NewGas(r.Network, r.Token, r.Nickname, r.Frequency, h),
                           existingId |-> 0, dbErr |-> "none"]]
          /\ gasMade' = h
          /\ started' = started \cup {h}
          /\ shutdowns' = MapPut(shutdowns, h, 0)
    /\ pc' = [pc EXCEPT ![p] = "addGasInc"]
    /\ UNCHANGED <<req, resp, writer, readers, WatchingGas, gasCount, DB, rows, pre,
                   accepted, deleted, trace, waiting>>

\* addGas: gasCount.Inc()
addGasInc(p) ==
    /\ pc[p] = "addGasInc"
    /\ gasCount' = gasCount + 1
    /\ pc' = [pc EXCEPT ![p] = "addGasStore"]
    /\ UNCHANGED <<req, resp, local, writer, readers, WatchingGas, gasMade, started,
                   shutdowns, DB, rows, pre, accepted, deleted, trace, waiting>>

\* Fault: the database is used without the check for noDB.
addGasStoreNoDbCheck(p) ==
    /\ pc[p] = "addGasStore"
    /\ WatchingGas' = MapPut(WatchingGas, local[p].gas.Network, local[p].gas)
    /\ pc' = [pc EXCEPT ![p] = "addGasSelect"]
    /\ UNCHANGED <<req, resp, local, writer, readers, gasCount, gasMade, started,
                   shutdowns, DB, rows, pre, accepted, deleted, trace, waiting>>

\* addGas: m.WatchingGas[gas.Network] = gas; return when there is no DB.
addGasStore(p) ==
    /\ pc[p] = "addGasStore"
    /\ WatchingGas' = MapPut(WatchingGas, local[p].gas.Network, local[p].gas)
    /\ pc' = [pc EXCEPT ![p] = IF DB = "noDB" THEN "AddGasEncode" ELSE "addGasSelect"]
    /\ UNCHANGED <<req, resp, local, writer, readers, gasCount, gasMade, started,
                   shutdowns, DB, rows, pre, accepted, deleted, trace, waiting>>

\* ------------------------------------------------------- the gases table
\* SELECT id FROM gases WHERE network = ? LIMIT 1: the ids the query can
\* return; existingId stays 0 when there is none.
\* Fault: the lookup never finds the row.
SelectIdsNone(table, network) == {0}
SelectIds(table, network) ==
    IF \E id \in DOMAIN table : table[id].network = network
    THEN {id \in DOMAIN table : table[id].network = network}
    ELSE {0}

Row(id, gas) ==
    [id |-> id, token |-> gas.token, nickname |-> gas.Nickname,
     network |-> gas.Network, frequency |-> gas.Frequency]

\* update gases set token, nickname, network, frequency WHERE id = ?
UpdateRow(table, id, gas) ==
    [x \in DOMAIN table |-> IF x = id THEN Row(id, gas) ELSE table[x]]

\* INSERT INTO gases(token, nickname, network, frequency): the table
\* assigns the next id.
InsertRow(table, gas) ==
    MapPut(table, Cardinality(DOMAIN table) + 1, Row(Cardinality(DOMAIN table) + 1, gas))

\* Fault: a failed database call takes the entry out of the map again.
AfterDbErrorUndo(p) ==
    /\ WatchingGas' = MapDelete(WatchingGas, local[p].gas.Network)
    /\ pc' = [pc EXCEPT ![p] = "AddGasEncode"]
    /\ UNCHANGED gasCount

\* What addGas does after a failed database call: log and return.
AfterDbError(p) ==
    /\ pc' = [pc EXCEPT ![p] = "AddGasEncode"]
    /\ UNCHANGED <<WatchingGas, gasCount>>

\* addGas lines 87-109: prepare and run the SELECT, scan the id.
addGasSelect(p) ==
    /\ pc[p] = "addGasSelect"
    /\ \E err \in {"none", "prepare", "query", "scan"} :
       \E id \in SelectIds(rows, local[p].gas.Network) :
          /\ err = "scan" => id # 0
          /\ IF err # "none"
             THEN /\ local' = [local EXCEPT ![p].dbErr = err]
                  /\ AfterDbError(p)
             ELSE /\ local' = [local EXCEPT ![p].existingId = id]
                  /\ pc' = [pc EXCEPT ![p] = "addGasUpsert"]
                  /\ UNCHANGED <<WatchingGas, gasCount>>
    /\ UNCHANGED <<req, resp, writer, readers, gasMade, started, shutdowns, DB, rows,
                   pre, accepted, deleted, trace, waiting>>

\* addGas lines 111-153: update the row found, else insert one.  A failed
\* Prepare or Exec leaves the table as it was; a failed LastInsertId comes
\* after the statement ran.
addGasUpsert(p) ==
    /\ pc[p] = "addGasUpsert"
    /\ \E err \in {"none", "prepare", "exec", "lastInsertId"} :
          /\ rows' = IF err \in {"prepare", "exec"} THEN rows
                     ELSE IF local[p].existingId # 0
                          THEN UpdateRow(rows, local[p].existingId, local[p].gas)
                          ELSE InsertRow(rows, local[p].gas)
          /\ IF err # "none"
             THEN /\ local' = [local EXCEPT ![p].dbErr = err]
                  /\ AfterDbError(p)
             ELSE /\ pc' = [pc EXCEPT ![p] = "AddGasEncode"]
                  /\ UNCHANGED <<local, WatchingGas, gasCount>>
    /\ UNCHANGED <<req, resp, writer, readers, gasMade, started, shutdowns, DB,
                   pre, accepted, deleted, trace, waiting>>

\* Fault: the request, which carries the token, is encoded instead of the gas.
AddGasEncodeReq(p) ==
    /\ pc[p] = "AddGasEncode"
    /\ resp' = [resp EXCEPT ![p] =
                   [status |-> StatusOK,
                    body |-> [network |-> local[p].gasReq.Network,
                              discord_bot_token |-> local[p].gasReq.Token,
                              set_nickname |-> local[p].gasReq.Nickname,
                              frequency |-> local[p].gasReq.Frequency]]]
    /\ accepted' = MapPut(accepted, ToUpper(local[p].gasReq.Network), local[p].gasReq)
    /\ deleted' = deleted \ {ToUpper(local[p].gasReq.Network)}
    /\ pc' = [pc EXCEPT ![p] = "AddGasReturn"]
    /\ UNCHANGED <<req, local, writer, readers, DB, pre, registry, waiting>>

\* AddGas lines 68-74: status 200 and the encoded gas.  When the encoder
\* fails the header is already written, so the later WriteHeader(400)
\* does not change the status.
AddGasEncode(p) ==
    /\ pc[p] = "AddGasEncode"
    /\ \E encErr \in BOOLEAN :
          resp' = [resp EXCEPT ![p] =
                      IF encErr THEN [status |-> StatusOK]
                      ELSE [status |-> StatusOK, body |-> EncodeGas(local[p].gas)]]
    /\ accepted' = MapPut(accepted, ToUpper(local[p].gasReq.Network), local[p].gasReq)
    /\ deleted' = deleted \ {ToUpper(local[p].gasReq.Network)}
    /\ pc' = [pc EXCEPT ![p] = "AddGasReturn"]
    /\ UNCHANGED <<req, local, writer, readers, DB, pre, registry, waiting>>

\* Fault: the return after the 409 does not release the lock.
AddGasUnlockNotOnConflict(p) ==
    /\ pc[p] = "AddGasReturn"
    /\ writer' = IF resp[p].status = StatusConflict THEN writer ELSE 0
    /\ pre' = [pre EXCEPT ![p] = NoPre]
    /\ local' = [local EXCEPT ![p] = NoLocal]
    /\ Finish(p)
    /\ UNCHANGED <<readers, DB, accepted, deleted, registry, waiting>>

\* The deferred m.Unlock() runs as AddGas returns.
AddGasUnlock(p) ==
    /\ pc[p] = "AddGasReturn"
    /\ writer' = 0
    /\ pre' = [pre EXCEPT ![p] = NoPre]
    /\ local' = [local EXCEPT ![p] = NoLocal]
    /\ Finish(p)
    /\ UNCHANGED <<readers, DB, accepted, deleted, registry, waiting>>

\* ------------------------------------------------------------- DeleteGas
\* m.Lock(); defer m.Unlock()
DeleteGasLock(p) ==
    /\ pc[p] = "DeleteGas"
    /\ CanLock
    /\ LockTurn(p)
    /\ waiting' = Leave(waiting, p)
    /\ writer' = p
    /\ pre' = [pre EXCEPT ![p] = Snapshot]
    /\ pc' = [pc EXCEPT ![p] = "DeleteGasCheck"]
    /\ UNCHANGED <<req, resp, local, readers, DB, accepted, deleted, registry>>

\* id := strings.ToUpper(vars["id"])
DeleteGasId(pathId) == ToUpper(pathId)

\* Fault: the gauge is decremented before the lookup.
DeleteGasCheckDecFirst(p) ==
    /\ pc[p] = "DeleteGasCheck"
    /\ gasCount' = gasCount - 1
    /\ LET id == DeleteGasId(req[p].id) IN
       IF id \notin DOMAIN WatchingGas
       THEN /\ resp' = [resp EXCEPT ![p] = [status |-> StatusNotFound]]
            /\ pc' = [pc EXCEPT ![p] = "DeleteGasReturn"]
            /\ UNCHANGED local
       ELSE /\ local' = [local EXCEPT ![p] = [set |-> TRUE, id |-> id]]
            /\ pc' = [pc EXCEPT ![p] = "DeleteGasShutdown"]
            /\ UNCHANGED resp
    /\ UNCHANGED <<req, writer, readers, DB, pre, accepted, deleted,
                   WatchingGas, gasMade, started, shutdowns, rows, trace, waiting>>

\* Lines 163-170: 404 when the id is not watched.
DeleteGasCheck(p) ==
    /\ pc[p] = "DeleteGasCheck"
    /\ LET id == DeleteGasId(req[p].id) IN
       IF id \notin DOMAIN WatchingGas
       THEN /\ resp' = [resp EXCEPT ![p] = [status |-> StatusNotFound]]
            /\ pc' = [pc EXCEPT ![p] = "DeleteGasReturn"]
            /\ UNCHANGED local
       ELSE /\ local' = [local EXCEPT ![p] = [set |-> TRUE, id |-> id]]
            /\ pc' = [pc EXCEPT ![p] = "DeleteGasShutdown"]
            /\ UNCHANGED resp
    /\ UNCHANGED <<req, writer, readers, DB, pre, accepted, deleted, registry, waiting>>

\* Fault: no stop signal is sent.
DeleteGasShutdownSkip(p) ==
    /\ pc[p] = "DeleteGasShutdown"
    /\ pc' = [pc EXCEPT ![p] = "DeleteGasDec"]
    /\ UNCHANGED <<req, resp, local, writer, readers, WatchingGas, gasCount, gasMade,
                   started, shutdowns, DB, rows, pre, accepted, deleted, trace, waiting>>

\* m.WatchingGas[id].Shutdown(): the stop signal to the entry's watcher.
\* On a missing entry the call is on a nil *Gas: the handler panics, the
\* server recovers it and the deferred Unlock still runs.
DeleteGasShutdown(p) ==
    /\ pc[p] = "DeleteGasShutdown"
    /\ IF local[p].id \in DOMAIN WatchingGas
       THEN /\ shutdowns' = [shutdowns EXCEPT ![WatchingGas[local[p].id].handle] = @ + 1]
            /\ pc' = [pc EXCEPT ![p] = "DeleteGasDec"]
       ELSE /\ pc' = [pc EXCEPT ![p] = "DeleteGasReturn"]
            /\ UNCHANGED shutdowns
    /\ UNCHANGED <<req, resp, local, writer, readers, WatchingGas, gasCount, gasMade,
                   started, DB, rows, pre, accepted, deleted, trace, waiting>>

\* gasCount.Dec()
DeleteGasDec(p) ==
    /\ pc[p] = "DeleteGasDec"
    /\ gasCount' = gasCount - 1
    /\ pc' = [pc EXCEPT ![p] = "DeleteGasRemove"]
    /\ UNCHANGED <<req, resp, local, writer, readers, WatchingGas, gasMade, started,
                   shutdowns, DB, rows, pre, accepted, deleted, trace, waiting>>

\* Fault: the entry is not removed from the map.
DeleteGasRemoveKeep(p) ==
    /\ pc[p] = "DeleteGasRemove"
    /\ resp' = [resp EXCEPT ![p] = [status |-> StatusNoContent]]
    /\ accepted' = MapDelete(accepted, ToUpper(req[p].id))
    /\ deleted' = deleted \cup {ToUpper(req[p].id)}
    /\ pc' = [pc EXCEPT ![p] = "DeleteGasReturn"]
    /\ UNCHANGED <<req, local, writer, readers, DB, pre, registry, waiting>>

\* Fault: the row of the network is deleted from the table as well.
DeleteGasRemoveRow(p) ==
    /\ pc[p] = "DeleteGasRemove"
    /\ WatchingGas' = MapDelete(WatchingGas, local[p].id)
    /\ rows' = [x \in {y \in DOMAIN rows : rows[y].network # local[p].id} |-> rows[x]]
    /\ resp' = [resp EXCEPT ![p] = [status |-> StatusNoContent]]
    /\ accepted' = MapDelete(accepted, ToUpper(req[p].id))
    /\ deleted' = deleted \cup {ToUpper(req[p].id)}
    /\ pc' = [pc EXCEPT ![p] = "DeleteGasReturn"]
    /\ UNCHANGED <<req, local, writer, readers, gasCount, gasMade, started, shutdowns,
                   DB, pre, trace, waiting>>

\* delete(m.WatchingGas, id); status 204.
DeleteGasRemove(p) ==
    /\ pc[p] = "DeleteGasRemove"
    /\ WatchingGas' = MapDelete(WatchingGas, local[p].id)
    /\ resp' = [resp EXCEPT ![p] = [status |-> StatusNoContent]]
    /\ accepted' = MapDelete(accepted, ToUpper(req[p].id))
    /\ deleted' = deleted \cup {ToUpper(req[p].id)}
    /\ pc' = [pc EXCEPT ![p] = "DeleteGasReturn"]
    /\ UNCHANGED <<req, local, writer, readers, gasCount, gasMade, started, shutdowns,
                   DB, rows, pre, trace, waiting>>

\* The deferred m.Unlock() runs as DeleteGas returns.
DeleteGasUnlock(p) ==
    /\ pc[p] = "DeleteGasReturn"
    /\ writer' = 0
    /\ pre' = [pre EXCEPT ![p] = NoPre]
    /\ local' = [local EXCEPT ![p] = NoLocal]
    /\ Finish(p)
    /\ UNCHANGED <<readers, DB, accepted, deleted, registry, waiting>>

\* ---------------------------------------------------------------- GetGas
\* m.RLock(); defer m.RUnlock()
GetGasRLock(p) ==
    /\ pc[p] = "GetGas"
    /\ CanRLock
    /\ RLockTurn(p)
    /\ waiting' = Leave(waiting, p)
    /\ readers' = readers \cup {p}
    /\ pre' = [pre EXCEPT ![p] = Snapshot]
    /\ pc' = [pc EXCEPT ![p] = "GetGasEncode"]
    /\ UNCHANGED <<req, resp, local, writer, DB, accepted, deleted, registry>>

\* Status 200 and the encoded map.
GetGasEncode(p) ==
    /\ pc[p] = "GetGasEncode"
    /\ resp' = [resp EXCEPT ![p] = [status |-> StatusOK, body |-> EncodeMap(WatchingGas)]]
    /\ pc' = [pc EXCEPT ![p] = "GetGasReturn"]
    /\ UNCHANGED <<req, local, writer, readers, DB, pre, accepted, deleted, registry, waiting>>

\* The deferred m.RUnlock() runs as GetGas returns.
GetGasRUnlock(p) ==
    /\ pc[p] = "GetGasReturn"
    /\ readers' = readers \ {p}
    /\ pre' = [pre EXCEPT ![p] = NoPre]
    /\ Finish(p)
    /\ UNCHANGED <<local, writer, DB, accepted, deleted, registry, waiting>>

\* --------------------------------------------------------- specification
Next ==
    \E p \in Procs :
        \/ ServeAdd(p)
        \/ ServeDelete(p)
        \/ ServeGet(p)
        \/ AddGasLock(p)
        \/ AddGasCheck(p)
        \/ AddGasNewGas(p)
        \/ addGasInc(p)
        \/ addGasStore(p)
        \/ addGasSelect(p)
        \/ addGasUpsert(p)
        \/ AddGasEncode(p)
        \/ AddGasUnlock(p)
        \/ DeleteGasLock(p)
        \/ DeleteGasCheck(p)
        \/ DeleteGasShutdown(p)
        \/ DeleteGasDec(p)
        \/ DeleteGasRemove(p)
        \/ DeleteGasUnlock(p)
        \/ GetGasRLock(p)
        \/ GetGasEncode(p)
        \/ GetGasRUnlock(p)

Spec == Init /\ [][Next]_vars

\* The steps of the handler goroutine p is running.
Handler(p) ==
    \/ AddGasLock(p) \/ AddGasCheck(p) \/ AddGasNewGas(p) \/ addGasInc(p)
    \/ addGasStore(p) \/ addGasSelect(p) \/ addGasUpsert(p) \/ AddGasEncode(p)
    \/ AddGasUnlock(p)
    \/ DeleteGasLock(p) \/ DeleteGasCheck(p) \/ DeleteGasShutdown(p)
    \/ DeleteGasDec(p) \/ DeleteGasRemove(p) \/ DeleteGasUnlock(p)
    \/ GetGasRLock(p) \/ GetGasEncode(p) \/ GetGasRUnlock(p)

\* Fair scheduling: a goroutine whose next step stays possible takes it
\* (database calls and Shutdown return).  Requests need not keep arriving.
SpecFair == Init /\ [][Next]_vars /\ \A p \in Procs : WF_vars(Handler(p))

\* ------------------------------------------- N parallel Creates of one key
\* Valid bodies whose networks differ only in letter case.
RaceBodies == {b \in AddBodies : b.wellFormed /\ GasRequest(b.obj).Token # ""
                                   /\ ToUpper(GasRequest(b.obj).Network) = ETH}

\* Every goroutine enters AddGas with a request for the same key; the
\* registry is empty, the table empty or holding the row of an earlier run.
InitRace ==
    /\ pc = [p \in Procs |-> "AddGas"]
    /\ req \in [Procs -> {[kind |-> "add", body |-> b] : b \in RaceBodies}]
    /\ resp = [p \in Procs |-> NoResp]
    /\ local = [p \in Procs |-> NoLocal]
    /\ pre = [p \in Procs |-> NoPre]
    /\ writer = 0
    /\ readers = {}
    /\ WatchingGas = EmptyMap
    /\ gasCount = 0
    /\ gasMade = 0
    /\ started = {}
    /\ shutdowns = EmptyMap
    /\ DB \in {"noDB", "db"}
    /\ rows \in {EmptyMap} \cup
                (IF DB = "db"
                 THEN {MapPut(EmptyMap, 1, Row(1, NewGas(ETH, "old", FALSE, 60, 0)))}
                 ELSE {})
    /\ accepted = EmptyMap
    /\ deleted = {}
    /\ trace = TRUE
    /\ waiting \in {w \in [1..NumProcs -> Procs] :
                       \A i, j \in 1..NumProcs : w[i] = w[j] => i = j}

NextRace ==
    \E p \in Procs :
        \/ AddGasLock(p)
        \/ AddGasCheck(p)
        \/ AddGasNewGas(p)
        \/ addGasInc(p)
        \/ addGasStore(p)
        \/ addGasSelect(p)
        \/ addGasUpsert(p)
        \/ AddGasEncode(p)
        \/ AddGasUnlock(p)

SpecRace == InitRace /\ [][NextRace]_vars

\* ================================================================ claims
\* The registry as it was when p took the lock is the registry now.
SameAsPre(p) ==
    /\ pre[p].taken
    /\ WatchingGas = pre[p].WatchingGas
    /\ gasCount = pre[p].gasCount
    /\ started = pre[p].started
    /\ shutdowns = pre[p].shutdowns
    /\ rows = pre[p].rows

\* p has written the response of a Create and not yet released the lock.
AddReturned(p) == pc[p] = "AddGasReturn"
DeleteReturned(p) == pc[p] = "DeleteGasReturn"
GetReturned(p) == pc[p] = "GetGasReturn"

\* The body of p's Create was read and decoded.
Decoded(p) == ~local[p].readErr /\ req[p].body.wellFormed
ReqOf(p) == GasRequest(req[p].body.obj)
\* The body of p's Create was read, decoded and has a token and a network.
ValidAdd(p) == Decoded(p) /\ ReqOf(p).Token # "" /\ ReqOf(p).Network # <<>>
\* p's Create went through addGas.
Added(p) == AddReturned(p) /\ "gas" \in DOMAIN local[p]

\* ---- C1: N >= 2 parallel Creates of one key against a registry without
\* it (bodies read without I/O error): exactly one is answered 200, the
\* other N-1 409; the map then holds one entry for the key and the gauge
\* has risen by exactly 1.  A Create whose body cannot be read is answered
\* 500 and counts for neither.
RaceAnswered(status) == {p \in Procs : pc[p] = "done" /\ resp[p].status = status}
C1_OneWinner ==
    (\A p \in Procs : pc[p] = "done") =>
        /\ RaceAnswered(StatusOK) \cup RaceAnswered(StatusConflict)
              \cup RaceAnswered(StatusInternalServerError) = Procs
        /\ Cardinality(RaceAnswered(StatusOK)) <= 1
        /\ RaceAnswered(StatusInternalServerError) # Procs
              => Cardinality(RaceAnswered(StatusOK)) = 1
        /\ RaceAnswered(StatusInternalServerError) = {}
              => Cardinality(RaceAnswered(StatusConflict)) = NumProcs - 1
        /\ gasCount = Cardinality(RaceAnswered(StatusOK))
        /\ DOMAIN WatchingGas = IF RaceAnswered(StatusOK) = {} THEN {} ELSE {ETH}
C1_Witness ==
    /\ NumProcs >= 2
    /\ \A p \in Procs : pc[p] = "done"
    /\ Cardinality(RaceAnswered(StatusOK)) = 1
    /\ Cardinality(RaceAnswered(StatusConflict)) = NumProcs - 1
    /\ \E p, q \in Procs : ReqOf(p).Network # ReqOf(q).Network

\* ---- C2: a Create whose key is already watched is answered 409, and the
\* map (so the entry's attributes, token and watcher handle), the gauge,
\* the watchers and the table are as they were.
C2_ConflictNoEffect ==
    \A p \in Procs :
        (AddReturned(p) /\ ValidAdd(p)
           /\ ToUpper(ReqOf(p).Network) \in DOMAIN pre[p].WatchingGas)
        => (resp[p].status = StatusConflict /\ SameAsPre(p))
C2_Witness ==
    \E p \in Procs :
        /\ AddReturned(p) /\ resp[p].status = StatusConflict
        /\ DB = "db" /\ rows # EmptyMap
        /\ WatchingGas[ToUpper(ReqOf(p).Network)].token # ReqOf(p).Token

\* ---- C3: keys are upper-cased for lookup and storage: a successful
\* Create of k stores the entry under upper(k), a Create of any case
\* variant of a watched key is answered 409, a Delete of any case variant
\* of a watched key is answered 204.
C3_UpperCaseKeys ==
    /\ \A k \in DOMAIN WatchingGas : k = ToUpper(k) /\ WatchingGas[k].Network = k
    /\ \A p \in Procs :
          /\ (AddReturned(p) /\ resp[p].status = StatusOK)
                => /\ ToUpper(ReqOf(p).Network) \in DOMAIN WatchingGas
                   /\ DOMAIN WatchingGas =
                         DOMAIN pre[p].WatchingGas \cup {ToUpper(ReqOf(p).Network)}
          /\ (AddReturned(p) /\ ValidAdd(p)
                /\ ToUpper(ReqOf(p).Network) \in DOMAIN pre[p].WatchingGas)
                => resp[p].status = StatusConflict
          /\ (DeleteReturned(p) /\ ToUpper(req[p].id) \in DOMAIN pre[p].WatchingGas)
                => resp[p].status = StatusNoContent
C3_Witness ==
    \E p \in Procs :
        /\ DeleteReturned(p) /\ resp[p].status = StatusNoContent
        /\ req[p].id # ToUpper(req[p].id)
        /\ pre[p].accepted[ToUpper(req[p].id)].Network \notin {req[p].id, ToUpper(req[p].id)}

C5_DbErrorKeepsEntry ==
    \A p \in Procs :
        (Added(p) /\ local[p].dbErr # "none")
        => /\ resp[p].status = StatusOK
           /\ local[p].gas.Network \in DOMAIN EncodeMap(WatchingGas)
           /\ WatchingGas = MapPut(pre[p].WatchingGas, local[p].gas.Network, local[p].gas)
           /\ gasCount = pre[p].gasCount + 1
C5_Witness ==
    \E p \in Procs :
        /\ Added(p) /\ local[p].dbErr = "exec" /\ local[p].existingId # 0
        /\ resp[p].status = StatusOK

\* ---- C6: List returns exactly the keys (upper-cased) of the Creates
\* answered 200 and not deleted since, each with the nickname flag and the
\* frequency of its request.
C6_ListMatchesCreates ==
    \A p \in Procs :
        GetReturned(p)
        => /\ DOMAIN resp[p].body = DOMAIN accepted
           /\ \A k \in DOMAIN accepted :
                 /\ resp[p].body[k].nickname = accepted[k].Nickname
                 /\ resp[p].body[k].frequency = accepted[k].Frequency
C6_Witness ==
    \E p \in Procs :
        /\ GetReturned(p)
        /\ Cardinality(DOMAIN resp[p].body) >= 2
        /\ \E k \in DOMAIN accepted : accepted[k].Nickname
        /\ deleted = {}

\* ---- C7: a Delete of a key that is not in the map is answered 404; the
\* map, the gauge, the watchers (no stop signal) and the table are as they
\* were.
C7_DeleteMissingNoEffect ==
    \A p \in Procs :
        (DeleteReturned(p) /\ ToUpper(req[p].id) \notin DOMAIN pre[p].WatchingGas)
        => (resp[p].status = StatusNotFound /\ SameAsPre(p))
C7_Witness ==
    \E p \in Procs :
        /\ DeleteReturned(p) /\ resp[p].status = StatusNotFound
        /\ WatchingGas # EmptyMap

\* ---- C8: after a Delete of k answered 204, k is not in the map, the
\* gauge is one lower, the other entries are as they were; a Delete of a
\* key whose last successful request was a Delete is answered 404.
C8_DeleteRemoves ==
    \A p \in Procs :
        /\ (DeleteReturned(p) /\ resp[p].status = StatusNoContent)
              => /\ ToUpper(req[p].id) \in DOMAIN pre[p].WatchingGas
                 /\ ToUpper(req[p].id) \notin DOMAIN EncodeMap(WatchingGas)
                 /\ WatchingGas = MapDelete(pre[p].WatchingGas, ToUpper(req[p].id))
                 /\ gasCount = pre[p].gasCount - 1
        /\ (DeleteReturned(p) /\ ToUpper(req[p].id) \in pre[p].deleted)
              => resp[p].status = StatusNotFound
C8_Witness ==
    \E p \in Procs :
        /\ DeleteReturned(p) /\ ToUpper(req[p].id) \in pre[p].deleted
        /\ resp[p].status = StatusNotFound
        /\ WatchingGas # EmptyMap

\* ---- C9: a Create with an empty token or an empty network is answered
\* 400: no watcher is started and the map, the gauge and the table are as
\* they were.
C9_MissingFieldNoEffect ==
    \A p \in Procs :
        (AddReturned(p) /\ Decoded(p)
           /\ (ReqOf(p).Token = "" \/ ReqOf(p).Network = <<>>))
        => (resp[p].status = StatusBadRequest /\ SameAsPre(p))
C9_Witness ==
    \E p, q \in Procs :
        /\ AddReturned(p) /\ resp[p].status = StatusBadRequest
        /\ ReqOf(p).Token = "" /\ ReqOf(p).Network # <<>>
        /\ ToUpper(ReqOf(p).Network) \notin DOMAIN WatchingGas
        /\ WatchingGas # EmptyMap

\* ---- C10: a Create whose body cannot be decoded into a GasRequest is
\* answered 400 and changes no state.
C10_DecodeError400 ==
    \A p \in Procs :
        (AddReturned(p) /\ ~local[p].readErr /\ ~req[p].body.wellFormed)
        => (resp[p].status = StatusBadRequest /\ SameAsPre(p))

\* ---- C11: a successful Create that leaves the frequency unset or zero
\* yields an entry with frequency 60 in the map, in the response and in
\* the row; a non-zero frequency is kept.
WantedFrequency(p) ==
    IF ReqOf(p).Frequency = 0 THEN DefaultFrequency ELSE ReqOf(p).Frequency
C11_DefaultFrequency ==
    \A p \in Procs :
        (Added(p) /\ resp[p].status = StatusOK)
        => /\ WatchingGas[local[p].gas.Network].Frequency = WantedFrequency(p)
           /\ "body" \in DOMAIN resp[p] => resp[p].body.frequency = WantedFrequency(p)
           /\ (DB = "db" /\ local[p].dbErr = "none")
                 => \A id \in DOMAIN rows :
                       rows[id].network = local[p].gas.Network
                          => rows[id].frequency = WantedFrequency(p)

\* ---- C12 as stated: in every reachable state no two keys of the map
\* name one network and every key has exactly one watcher, started and
\* not sent a stop signal.
HandleOf(k) == WatchingGas[k].handle
OneWatcherPerKey ==
    /\ \A k1, k2 \in DOMAIN WatchingGas : ToUpper(k1) = ToUpper(k2) => k1 = k2
    /\ \A k1, k2 \in DOMAIN WatchingGas : HandleOf(k1) = HandleOf(k2) => k1 = k2
    /\ \A k \in DOMAIN WatchingGas : HandleOf(k) \in started
C12_RunningWatcherPerKey ==
    /\ OneWatcherPerKey
    /\ \A k \in DOMAIN WatchingGas : shutdowns[HandleOf(k)] = 0

\* The key a DeleteGas holding the lock has signalled and not yet removed.
BeingDeleted(k) ==
    \E p \in Procs : pc[p] \in {"DeleteGasDec", "DeleteGasRemove"} /\ local[p].id = k

\* ---- C12 amended: the same, except that the watcher of the key a Delete
\* has signalled and is about to remove (lines 172-176, under the
\* exclusive lock) has received that one stop signal.
C12_RunningWatcherUnlessDeleting ==
    /\ OneWatcherPerKey
    /\ \A k \in DOMAIN WatchingGas :
          IF BeingDeleted(k) THEN shutdowns[HandleOf(k)] = 1
          ELSE shutdowns[HandleOf(k)] = 0
C12_Witness ==
    \E p \in Procs :
        /\ pc[p] = "DeleteGasDec"
        /\ Cardinality(DOMAIN WatchingGas) = 2
        /\ \E k \in DOMAIN WatchingGas : shutdowns[HandleOf(k)] = 0

\* ---- C13: a step that removes an entry from the map finds its watcher
\* signalled, exactly once; no watcher is ever signalled twice.
C13_StopBeforeRemove ==
    [][ /\ \A k \in DOMAIN WatchingGas :
              k \notin DOMAIN WatchingGas'
                 => shutdowns[HandleOf(k)] = 1 /\ shutdowns'[HandleOf(k)] = 1
        /\ \A h \in DOMAIN shutdowns' : shutdowns'[h] <= 1 ]_vars
C13_Witness ==
    \E p \in Procs :
        /\ DeleteReturned(p) /\ resp[p].status = StatusNoContent
        /\ pre[p].shutdowns[pre[p].WatchingGas[ToUpper(req[p].id)].handle] = 0
        /\ shutdowns[pre[p].WatchingGas[ToUpper(req[p].id)].handle] = 1
        /\ WatchingGas # EmptyMap

\* Positions inside AddGas and DeleteGas after m.Lock(), inside GetGas
\* after m.RLock().
WriteSection ==
    {"AddGasCheck", "AddGasNewGas", "addGasInc", "addGasStore", "addGasSelect",
     "addGasUpsert", "AddGasEncode", "AddGasReturn", "DeleteGasCheck",
     "DeleteGasShutdown", "DeleteGasDec", "DeleteGasRemove", "DeleteGasReturn"}
ReadSection == {"GetGasEncode", "GetGasReturn"}
Quiet == \A p \in Procs : pc[p] \notin WriteSection

\* ---- C14: while a goroutine is inside AddGas or DeleteGas no other is
\* inside AddGas, DeleteGas or GetGas; the body of a List is the map as it
\* stood when the read lock was taken, a state between whole mutations
\* (gauge equal to the number of entries, no entry's watcher signalled).
C14_ListSeesWholeMutations ==
    /\ \A p, q \in Procs :
          (p # q /\ pc[p] \in WriteSection) => pc[q] \notin WriteSection \cup ReadSection
    /\ \A p \in Procs :
          GetReturned(p)
          => /\ resp[p].body = EncodeMap(pre[p].WatchingGas)
             /\ WatchingGas = pre[p].WatchingGas
             /\ pre[p].gasCount = Cardinality(DOMAIN resp[p].body)
             /\ \A k \in DOMAIN pre[p].WatchingGas :
                   pre[p].shutdowns[pre[p].WatchingGas[k].handle] = 0
C14_Witness ==
    \E p, q \in Procs :
        /\ GetReturned(p) /\ resp[p].body # EmptyMap
        /\ pc[q] \in {"AddGas", "DeleteGas"}
        /\ deleted # {}

\* ---- C15: a Delete, answered 204 or 404, leaves the table as it was:
\* the row written by the Create of the key is still there.
C15_DeleteKeepsRows ==
    \A p \in Procs :
        pc[p] \in {"DeleteGasCheck", "DeleteGasShutdown", "DeleteGasDec",
                   "DeleteGasRemove", "DeleteGasReturn"}
        => rows = pre[p].rows
C15_Witness ==
    \E p \in Procs :
        /\ DeleteReturned(p) /\ resp[p].status = StatusNoContent
        /\ \E id \in DOMAIN rows :
              /\ rows[id].network = ToUpper(req[p].id)
              /\ rows[id].token = pre[p].WatchingGas[ToUpper(req[p].id)].token

\* ---- C16: the body of a Create answered 200 and the body of a List
\* carry no token field for any entry, while the token of the request is
\* what the row of the network holds.
CredentialFields == {"token", "discord_bot_token"}
C16_NoTokenInResponses ==
    \A p \in Procs :
        /\ (AddReturned(p) /\ "body" \in DOMAIN resp[p])
              => DOMAIN resp[p].body \cap CredentialFields = {}
        /\ GetReturned(p)
              => \A k \in DOMAIN resp[p].body :
                    DOMAIN resp[p].body[k] \cap CredentialFields = {}
        /\ (Added(p) /\ DB = "db" /\ local[p].dbErr = "none")
              => \E id \in DOMAIN rows :
                    /\ rows[id].network = local[p].gas.Network
                    /\ rows[id].token = ReqOf(p).Token
C16_Witness ==
    \E p \in Procs :
        /\ Added(p) /\ "body" \in DOMAIN resp[p]
        /\ DB = "db" /\ local[p].dbErr = "none"
        /\ \E id \in DOMAIN rows : rows[id].token = ReqOf(p).Token
        /\ WatchingGas[local[p].gas.Network].token = ReqOf(p).Token

\* ---- C17: with no database configured a valid Create of an unwatched
\* key is answered 200 with the entry in the map, the gauge one higher and
\* the watcher started, and no database call is made.
C17_NoDbCreate ==
    DB = "noDB" =>
        /\ rows = EmptyMap
        /\ \A p \in Procs :
              /\ pc[p] \notin {"addGasSelect", "addGasUpsert"}
              /\ (AddReturned(p) /\ ValidAdd(p)
                    /\ ToUpper(ReqOf(p).Network) \notin DOMAIN pre[p].WatchingGas)
                    => /\ resp[p].status = StatusOK
                       /\ ToUpper(ReqOf(p).Network) \in DOMAIN WatchingGas
                       /\ gasCount = pre[p].gasCount + 1
                       /\ HandleOf(ToUpper(ReqOf(p).Network)) \in started \ pre[p].started
                       /\ local[p].dbErr = "none"
C17_Witness ==
    \E p \in Procs :
        /\ DB = "noDB" /\ Added(p) /\ resp[p].status = StatusOK
        /\ gasCount = 2

\* ---- C18: whenever no goroutine is inside AddGas or DeleteGas, the
\* gauge equals the number of entries of the map.
C18_GaugeIsMapSize ==
    Quiet => gasCount = Cardinality(DOMAIN WatchingGas)
C18_Witness ==
    /\ Quiet
    /\ gasCount = 1
    /\ deleted # {}
    /\ \E p \in Procs : pc[p] \in ReadSection

\* ---- C19 as stated: in every reachable state each watcher started and
\* not sent a stop signal is the handle of exactly one map entry.
Running == {h \in started : shutdowns[h] = 0}
KeysOf(h) == {k \in DOMAIN WatchingGas : HandleOf(k) = h}
C19_NoOrphanWatcher ==
    \A h \in Running : Cardinality(KeysOf(h)) = 1

\* The gas an AddGas holding the lock has built and not yet put in the map.
BeingAdded(h) ==
    \E p \in Procs : pc[p] \in {"addGasInc", "addGasStore"} /\ local[p].gas.handle = h

\* ---- C19 amended: the same, except for the watcher of the Gas that an
\* AddGas holding the exclusive lock has built and is about to put in the
\* map (between lines 65 and 80), which is in no entry yet.
C19_NoOrphanUnlessAdding ==
    \A h \in Running :
        IF BeingAdded(h) THEN KeysOf(h) = {} ELSE Cardinality(KeysOf(h)) = 1
C19_Witness ==
    \E p \in Procs :
        /\ pc[p] = "addGasStore"
        /\ WatchingGas # EmptyMap
        /\ local[p].gas.handle \in Running
        /\ \E k \in DOMAIN WatchingGas : HandleOf(k) \in Running

\* ---- C20: a goroutine outside the handlers holds no lock, and under
\* fair scheduling every request that entered a handler is answered and
\* its goroutine leaves the handler.
Returned(p) == AddReturned(p) \/ DeleteReturned(p) \/ GetReturned(p)
C20_EveryRequestCompletes ==
    /\ [](\A p \in Procs : pc[p] = "idle" => (writer # p /\ p \notin readers))
    /\ \A p \in Procs : (pc[p] # "idle") ~> (Returned(p) /\ resp[p].status # 0)
    /\ \A p \in Procs : Returned(p) ~> (pc[p] = "idle")
C20_Witness ==
    \E p, q \in Procs :
        /\ AddReturned(p) /\ resp[p].status = StatusConflict
        /\ pc[q] \in {"AddGas", "DeleteGas", "GetGas"}
        /\ waiting = <<q>>

====
